---- MODULE Spec2Model ----
(***************************************************************************)
(* Model of src/rust/src/main.rs: one run of main() is a straight line of  *)
(* RPC requests to a Bitcoin Core node followed by the emission of a ten   *)
(* line report.  Every step of main is one action; the node's answers are  *)
(* drawn from small sets.  Text is modelled as sequences of one-character  *)
(* strings so that formatting is computed, not assumed.                    *)
(***************************************************************************)
EXTENDS Integers, Sequences, FiniteSets

VARIABLES
    pc,           \* the statement of main about to execute
    outcome,      \* "running", "ok" (main returned Ok), "err" (returned Err), "panic"
    msg,          \* the error kind or the panic message
    local,        \* main's local variables
    nodeWallets,  \* node side: the wallets the node has, in creation order
    rpcLog,       \* node side: every request received, tagged with the run
    file,         \* ../out.txt
    stdout,       \* lines printed by the current process
    run,          \* which execution of the program this is
    scanned       \* how many outputs the find closure has been applied to

vars == <<pc, outcome, msg, local, nodeWallets, rpcLog, file, stdout, run, scanned>>

----------------------------------------------------------------------------
(* Bounds *)

MaxOutputs == 3
MaxRuns == 2

(* Program constants *)

MatureBlocks == 101
SendBtc == 20
ConfirmBlocks == 1

----------------------------------------------------------------------------
(* Values *)

None == [some |-> FALSE]
Some(v) == [some |-> TRUE, v |-> v]

BSeq(S, n) == UNION {[1..k -> S] : k \in 0..n}

Digit(d) == <<"0", "1", "2", "3", "4", "5", "6", "7", "8", "9">>[d + 1]

\* Display of an unsigned integer (u64): decimal, no padding.
RECURSIVE Dec(_)
Dec(n) == IF n < 10 THEN <<Digit(n)>> ELSE Dec(n \div 10) \o <<Digit(n % 10)>>

RECURSIVE Pad(_, _)
Pad(n, w) == IF w = 0 THEN <<>> ELSE Pad(n \div 10, w - 1) \o <<Digit(n % 10)>>

RECURSIVE TrimZeros(_)
TrimZeros(s) ==
    IF s # <<>> /\ s[Len(s)] = "0" THEN TrimZeros(SubSeq(s, 1, Len(s) - 1)) ELSE s

\* Amount::to_btc / SignedAmount::to_btc: satoshis as f64 divided by 1e8.  The
\* float is kept as sign, whole part and eight-digit fraction (exact below 2^53).
ToBtc(sat) ==
    LET mag == IF sat < 0 THEN 0 - sat ELSE sat
    IN  [neg |-> sat < 0, whole |-> mag \div 100000000, frac |-> mag % 100000000]

\* f64::abs, identity variant used to mutate it.
F64AbsIdentity(f) == f

\* f64::abs
F64Abs(f) == [f EXCEPT !.neg = FALSE]

\* Display of an f64: shortest decimal that round-trips, never an exponent.
F64Display(f) ==
    (IF f.neg THEN <<"-">> ELSE <<>>)
        \o Dec(f.whole)
        \o (IF f.frac = 0 THEN <<>> ELSE <<".">> \o TrimZeros(Pad(f.frac, 8)))

\* Address::from_script(script, Regtest): a witness program decodes to an
\* address, a data-carrier script does not.
FromScript(script) ==
    IF script.kind = "p2wpkh"
    THEN [ok |-> TRUE, addr |-> [network |-> "regtest", prog |-> script.prog]]
    ELSE [ok |-> FALSE, addr |-> [network |-> "regtest", prog |-> <<>>]]

\* Display of an Address: human readable part, then the program.
AddressDisplay(a) == <<"b", "c", "r", "t", "1", "q">> \o a.prog

Addr(p) == [network |-> "regtest", prog |-> <<p>>]
Pays(p) == [kind |-> "p2wpkh", prog |-> <<p>>]
NullData == [kind |-> "nulldata", prog |-> <<>>]
TxOut(v, s) == [value |-> v, script_pubkey |-> s]

----------------------------------------------------------------------------
(* What the node may answer.  Wide is used for a single run, Narrow when the *)
(* program is executed several times against the same node.                  *)

NodeOutputs ==
    { TxOut(2000000000, Pays("a")), TxOut(999998590, Pays("b")),
      TxOut(150000000, Pays("c")), TxOut(0, NullData) }

Wide ==
    [ miningAddrs |-> {Addr("c")},
      traderAddrs |-> {Addr("a"), Addr("b")},
      balances    |-> {0, 2100000000},
      txids       |-> {<<"e", "3">>},
      hashLists   |-> {<<>>, << <<"0", "f">> >>},
      heights     |-> {102, 205},
      fees        |-> {None, Some(0 - 1410), Some(0), Some(1410)},
      outputs     |-> BSeq(NodeOutputs, MaxOutputs) ]

Narrow ==
    [ miningAddrs |-> {Addr("c")},
      traderAddrs |-> {Addr("a")},
      balances    |-> {2100000000},
      txids       |-> {<<"e", "3">>},
      hashLists   |-> {<<>>, << <<"0", "f">> >>},
      heights     |-> {102},
      fees        |-> {None, Some(0 - 1410)},
      outputs     |-> { <<>>, <<TxOut(0, NullData)>>,
                        <<TxOut(2000000000, Pays("a")), TxOut(999998590, Pays("b"))>> } ]

----------------------------------------------------------------------------
(* State after process start *)

NoFile == [exists |-> FALSE, lines |-> <<>>]
StaleFile == [exists |-> TRUE, lines |-> << <<"o", "l", "d">> >>]

Locals ==
    [ wallets |-> <<>>, mining_address |-> None, miner_balance |-> None,
      trader_address |-> None, txid |-> None, block_hash |-> None,
      block_height |-> None, tx |-> None, decoded |-> None,
      change_output |-> None, change_address |-> None, fee |-> None ]

Init ==
    /\ pc = "connect"
    /\ outcome = "running"
    /\ msg = ""
    /\ local = Locals
    /\ nodeWallets \in {<<>>, <<"Miner">>, <<"Trader">>, <<"Miner", "Trader">>}
    /\ rpcLog = <<>>
    /\ file \in {NoFile, StaleFile}
    /\ stdout = <<>>
    /\ run = 1
    /\ scanned = 0

----------------------------------------------------------------------------
(* Control *)

At(p) == pc = p /\ outcome = "running"

Goto(p) == pc' = p /\ outcome' = outcome /\ msg' = msg

\* A failed operation re-issued instead of propagated (mutation of ReturnErr).
RetryInsteadOfReturn(m) == pc' = pc /\ outcome' = outcome /\ msg' = msg

\* The ? operator on an Err: main returns the error.
ReturnErr(m) == pc' = pc /\ outcome' = "err" /\ msg' = m

\* A fault downgraded to an error value (mutation of Panic).
PanicAsErr(m) == pc' = pc /\ outcome' = "err" /\ msg' = m

\* panic!, expect, unwrap on None, index out of bounds.
Panic(m) == pc' = pc /\ outcome' = "panic" /\ msg' = m

\* One request received by the node.
Rpc(to, method, arg, ok) ==
    rpcLog' = Append(rpcLog,
        [run |-> run, to |-> to, method |-> method, arg |-> arg, ok |-> ok])

----------------------------------------------------------------------------
(* main, statement by statement *)

\* The report opened before any request is made (mutation of Connect).
ConnectCreatingFile ==
    /\ At("connect")
    /\ \/ Goto("list_wallets")
       \/ ReturnErr("client")
    /\ file' = [exists |-> TRUE, lines |-> <<>>]
    /\ UNCHANGED <<local, nodeWallets, rpcLog, stdout, run, scanned>>

\* let rpc = Client::new(RPC_URL, ...)?
Connect ==
    /\ At("connect")
    /\ \/ Goto("list_wallets")
       \/ ReturnErr("client")
    /\ UNCHANGED <<local, nodeWallets, rpcLog, file, stdout, run, scanned>>

\* let wallets = rpc.list_wallets()?
ListWallets ==
    /\ At("list_wallets")
    /\ \/ /\ Rpc("base", "listwallets", "", TRUE)
          /\ local' = [local EXCEPT !.wallets = nodeWallets]
          /\ Goto("create_miner")
       \/ /\ Rpc("base", "listwallets", "", FALSE)
          /\ ReturnErr("rpc")
          /\ UNCHANGED local
    /\ UNCHANGED <<nodeWallets, file, stdout, run, scanned>>

\* The wallet list ignored (mutation of Contains).
ContainsNothing(list, name) == FALSE

\* Vec::contains
Contains(list, name) == \E i \in 1..Len(list) : list[i] = name

\* if !wallets.contains(name) { rpc.create_wallet(name, ...)?; }
CreateWallet(at, name, next) ==
    /\ At(at)
    /\ \/ /\ Contains(local.wallets, name)
          /\ Goto(next)
          /\ UNCHANGED <<nodeWallets, rpcLog>>
       \/ /\ ~Contains(local.wallets, name)
          /\ Rpc("base", "createwallet", name, TRUE)
          /\ nodeWallets' = Append(nodeWallets, name)
          /\ Goto(next)
       \/ /\ ~Contains(local.wallets, name)
          /\ Rpc("base", "createwallet", name, FALSE)
          /\ ReturnErr("rpc")
          /\ UNCHANGED nodeWallets
    /\ UNCHANGED <<local, file, stdout, run, scanned>>

CreateMinerWallet == CreateWallet("create_miner", "Miner", "create_trader")

CreateTraderWallet == CreateWallet("create_trader", "Trader", "miner_client")

\* Client::new(&format!("{}/wallet/<name>", RPC_URL), ...)?
WalletClient(at, next) ==
    /\ At(at)
    /\ \/ Goto(next)
       \/ ReturnErr("client")
    /\ UNCHANGED <<local, nodeWallets, rpcLog, file, stdout, run, scanned>>

MinerClient == WalletClient("miner_client", "trader_client")

TraderClient == WalletClient("trader_client", "mining_address")

\* let mining_address = miner.get_new_address(Some("Mining Reward"), None)?.assume_checked()
MiningAddress(U) ==
    /\ At("mining_address")
    /\ \/ \E a \in U.miningAddrs :
            /\ Rpc("Miner", "getnewaddress", "Mining Reward", TRUE)
            /\ local' = [local EXCEPT !.mining_address = Some(a)]
            /\ Goto("mine_maturity")
       \/ /\ Rpc("Miner", "getnewaddress", "Mining Reward", FALSE)
          /\ ReturnErr("rpc")
          /\ UNCHANGED local
    /\ UNCHANGED <<nodeWallets, file, stdout, run, scanned>>

\* rpc.generate_to_address(101, &mining_address)?
MineMaturity ==
    /\ At("mine_maturity")
    /\ \/ /\ Rpc("base", "generatetoaddress", MatureBlocks, TRUE)
          /\ Goto("get_balance")
       \/ /\ Rpc("base", "generatetoaddress", MatureBlocks, FALSE)
          /\ ReturnErr("rpc")
    /\ UNCHANGED <<local, nodeWallets, file, stdout, run, scanned>>

\* let miner_balance = miner.get_balance(None, None)?; println!(...)
GetBalance(U) ==
    /\ At("get_balance")
    /\ \/ \E b \in U.balances :
            /\ Rpc("Miner", "getbalance", "", TRUE)
            /\ local' = [local EXCEPT !.miner_balance = Some(b)]
            /\ stdout' = Append(stdout,
                   [text |-> "Miner balance: {} BTC", arg |-> F64Display(ToBtc(b))])
            /\ Goto("trader_address")
       \/ /\ Rpc("Miner", "getbalance", "", FALSE)
          /\ ReturnErr("rpc")
          /\ UNCHANGED <<local, stdout>>
    /\ UNCHANGED <<nodeWallets, file, run, scanned>>

\* let trader_address = trader.get_new_address(Some("Received"), None)?.assume_checked()
TraderAddress(U) ==
    /\ At("trader_address")
    /\ \/ \E a \in U.traderAddrs :
            /\ Rpc("Trader", "getnewaddress", "Received", TRUE)
            /\ local' = [local EXCEPT !.trader_address = Some(a)]
            /\ Goto("send")
       \/ /\ Rpc("Trader", "getnewaddress", "Received", FALSE)
          /\ ReturnErr("rpc")
          /\ UNCHANGED local
    /\ UNCHANGED <<nodeWallets, file, stdout, run, scanned>>

\* let txid = miner.send_to_address(&trader_address, Amount::from_btc(20.0)?, ...)?
Send(U) ==
    /\ At("send")
    /\ \/ \E t \in U.txids :
            /\ Rpc("Miner", "sendtoaddress", SendBtc * 100000000, TRUE)
            /\ local' = [local EXCEPT !.txid = Some(t)]
            /\ Goto("confirm")
       \/ /\ Rpc("Miner", "sendtoaddress", SendBtc * 100000000, FALSE)
          /\ ReturnErr("rpc")
          /\ UNCHANGED local
    /\ UNCHANGED <<nodeWallets, file, stdout, run, scanned>>

\* let block_hashes = rpc.generate_to_address(1, &mining_address)?;
\* let block_hash = block_hashes[0];
Confirm(U) ==
    /\ At("confirm")
    /\ \/ \E hs \in U.hashLists :
            /\ Rpc("base", "generatetoaddress", ConfirmBlocks, TRUE)
            /\ \/ /\ hs # <<>>
                  /\ local' = [local EXCEPT !.block_hash = Some(hs[1])]
                  /\ Goto("block_count")
               \/ /\ hs = <<>>
                  /\ Panic("index out of bounds: the len is 0 but the index is 0")
                  /\ UNCHANGED local
       \/ /\ Rpc("base", "generatetoaddress", ConfirmBlocks, FALSE)
          /\ ReturnErr("rpc")
          /\ UNCHANGED local
    /\ UNCHANGED <<nodeWallets, file, stdout, run, scanned>>

\* let block_height = rpc.get_block_count()?
GetBlockCount(U) ==
    /\ At("block_count")
    /\ \/ \E h \in U.heights :
            /\ Rpc("base", "getblockcount", "", TRUE)
            /\ local' = [local EXCEPT !.block_height = Some(h)]
            /\ Goto("get_transaction")
       \/ /\ Rpc("base", "getblockcount", "", FALSE)
          /\ ReturnErr("rpc")
          /\ UNCHANGED local
    /\ UNCHANGED <<nodeWallets, file, stdout, run, scanned>>

\* let tx = miner.get_transaction(&txid, None)?
GetTransaction(U) ==
    /\ At("get_transaction")
    /\ \/ \E f \in U.fees :
            /\ Rpc("Miner", "gettransaction", local.txid.v, TRUE)
            /\ local' = [local EXCEPT !.tx = Some([fee |-> f])]
            /\ Goto("get_raw_transaction")
       \/ /\ Rpc("Miner", "gettransaction", local.txid.v, FALSE)
          /\ ReturnErr("rpc")
          /\ UNCHANGED local
    /\ UNCHANGED <<nodeWallets, file, stdout, run, scanned>>

\* let decoded = miner.get_raw_transaction(&txid, None)?
GetRawTransaction(U) ==
    /\ At("get_raw_transaction")
    /\ \/ \E outs \in U.outputs :
            /\ Rpc("Miner", "getrawtransaction", local.txid.v, TRUE)
            /\ local' = [local EXCEPT !.decoded = Some([output |-> outs])]
            /\ Goto("find_change")
       \/ /\ Rpc("Miner", "getrawtransaction", local.txid.v, FALSE)
          /\ ReturnErr("rpc")
          /\ UNCHANGED local
    /\ UNCHANGED <<nodeWallets, file, stdout, run, scanned>>

\* The search refusing any output count but two (mutation of Find).
FindRequiringTwo(outs, i, trader) ==
    LET stops == {j \in i..Len(outs) :
                     \/ ~FromScript(outs[j].script_pubkey).ok
                     \/ FromScript(outs[j].script_pubkey).addr # trader}
        m == CHOOSE j \in stops : \A k \in stops : j <= k
    IN  IF Len(outs) # 2 \/ stops = {}
        THEN [kind |-> "none", idx |-> 0, scanned |-> 0]
        ELSE IF FromScript(outs[m].script_pubkey).ok
        THEN [kind |-> "found", idx |-> m, scanned |-> m]
        ELSE [kind |-> "undecodable", idx |-> m, scanned |-> m]

\* The first output taken as change whatever it pays (mutation of Find).
FindFirstOutput(outs, i, trader) ==
    IF i > Len(outs)
    THEN [kind |-> "none", idx |-> 0, scanned |-> Len(outs)]
    ELSE [kind |-> "found", idx |-> i, scanned |-> i]

\* The search decoding every output before choosing (mutation of Find).
FindDecodingAll(outs, i, trader) ==
    LET bad  == {j \in i..Len(outs) : ~FromScript(outs[j].script_pubkey).ok}
        hits == {j \in i..Len(outs) : FromScript(outs[j].script_pubkey).addr # trader}
        Min(S) == CHOOSE j \in S : \A k \in S : j <= k
    IN  IF bad # {} THEN [kind |-> "undecodable", idx |-> Min(bad), scanned |-> Len(outs)]
        ELSE IF hits # {} THEN [kind |-> "found", idx |-> Min(hits), scanned |-> Len(outs)]
        ELSE [kind |-> "none", idx |-> 0, scanned |-> Len(outs)]

\* decoded.output.iter().find(|o| { from_script(..).unwrap_or_else(panic) != trader_address })
\* from position i on: the closure is applied to one output after another and
\* the search ends at the first output for which it panics or returns true.
RECURSIVE Find(_, _, _)
Find(outs, i, trader) ==
    IF i > Len(outs)
    THEN [kind |-> "none", idx |-> 0, scanned |-> Len(outs)]
    ELSE LET r == FromScript(outs[i].script_pubkey)
         IN  IF ~r.ok THEN [kind |-> "undecodable", idx |-> i, scanned |-> i]
             ELSE IF r.addr # trader THEN [kind |-> "found", idx |-> i, scanned |-> i]
             ELSE Find(outs, i + 1, trader)

\* let change_output = decoded.output.iter().find(...).expect("Change output not found")
FindChange ==
    /\ At("find_change")
    /\ LET r == Find(local.decoded.v.output, 1, local.trader_address.v)
       IN  /\ scanned' = r.scanned
           /\ \/ /\ r.kind = "found"
                 /\ local' = [local EXCEPT !.change_output = Some(r.idx)]
                 /\ Goto("change_address")
              \/ /\ r.kind = "undecodable"
                 /\ Panic("Failed to convert script to address")
                 /\ UNCHANGED local
              \/ /\ r.kind = "none"
                 /\ Panic("Change output not found")
                 /\ UNCHANGED local
    /\ UNCHANGED <<nodeWallets, rpcLog, file, stdout, run>>

\* The output change_output refers to.
ChangeOutput == local.decoded.v.output[local.change_output.v]

\* let change_address = Address::from_script(&change_output.script_pubkey, Regtest).expect(...)
ChangeAddress ==
    /\ At("change_address")
    /\ LET r == FromScript(ChangeOutput.script_pubkey)
       IN  IF r.ok
           THEN /\ local' = [local EXCEPT !.change_address = Some(r.addr)]
                /\ Goto("fee")
           ELSE /\ Panic("Failed to convert change script to address")
                /\ UNCHANGED local
    /\ UNCHANGED <<nodeWallets, rpcLog, file, stdout, run, scanned>>

\* let fee = tx.fee.unwrap().to_btc().abs()
Fee ==
    /\ At("fee")
    /\ \/ /\ local.tx.v.fee.some
          /\ local' = [local EXCEPT !.fee = Some(F64Abs(ToBtc(local.tx.v.fee.v)))]
          /\ Goto("create_file")
       \/ /\ ~local.tx.v.fee.some
          /\ Panic("called Option::unwrap() on a None value")
          /\ UNCHANGED local
    /\ UNCHANGED <<nodeWallets, rpcLog, file, stdout, run, scanned>>

\* let mut file = File::create(out_path)?  (creates or truncates)
CreateFile ==
    /\ At("create_file")
    /\ \/ /\ file' = [exists |-> TRUE, lines |-> <<>>]
          /\ Goto("write")
       \/ /\ ReturnErr("io")
          /\ UNCHANGED file
    /\ UNCHANGED <<local, nodeWallets, rpcLog, stdout, run, scanned>>

\* Mining and recipient address exchanged (mutation of ReportLine).
ReportLineSwapped(k) ==
    CASE k = 1  -> local.txid.v
      [] k = 2  -> AddressDisplay(local.trader_address.v)
      [] k = 3  -> <<"5", "0">>
      [] k = 4  -> AddressDisplay(local.mining_address.v)
      [] k = 5  -> <<"2", "0">>
      [] k = 6  -> AddressDisplay(local.change_address.v)
      [] k = 7  -> F64Display(ToBtc(ChangeOutput.value))
      [] k = 8  -> F64Display(local.fee.v)
      [] k = 9  -> Dec(local.block_height.v)
      [] k = 10 -> local.block_hash.v

\* Input and sent amount measured instead of written as literals (mutation
\* of ReportLine).
ReportLineMeasured(k) ==
    CASE k = 1  -> local.txid.v
      [] k = 2  -> AddressDisplay(local.mining_address.v)
      [] k = 3  -> F64Display(ToBtc(local.miner_balance.v))
      [] k = 4  -> AddressDisplay(local.trader_address.v)
      [] k = 5  -> F64Display(ToBtc(local.decoded.v.output[1].value))
      [] k = 6  -> AddressDisplay(local.change_address.v)
      [] k = 7  -> F64Display(ToBtc(ChangeOutput.value))
      [] k = 8  -> F64Display(local.fee.v)
      [] k = 9  -> Dec(local.block_height.v)
      [] k = 10 -> local.block_hash.v

\* The k-th writeln!(file, ...) of main.
ReportLine(k) ==
    CASE k = 1  -> local.txid.v
      [] k = 2  -> AddressDisplay(local.mining_address.v)
      [] k = 3  -> <<"5", "0">>
      [] k = 4  -> AddressDisplay(local.trader_address.v)
      [] k = 5  -> <<"2", "0">>
      [] k = 6  -> AddressDisplay(local.change_address.v)
      [] k = 7  -> F64Display(ToBtc(ChangeOutput.value))
      [] k = 8  -> F64Display(local.fee.v)
      [] k = 9  -> Dec(local.block_height.v)
      [] k = 10 -> local.block_hash.v

\* writeln!(file, "{}", ...)?  -- the next of the ten, by the lines already written
Writeln ==
    /\ At("write")
    /\ LET k == Len(file.lines) + 1
       IN  \/ /\ file' = [file EXCEPT !.lines = Append(@, ReportLine(k))]
              /\ Goto(IF k = 10 THEN "finish" ELSE "write")
           \/ /\ ReturnErr("io")
              /\ UNCHANGED file
    /\ UNCHANGED <<local, nodeWallets, rpcLog, stdout, run, scanned>>

\* println!("Transaction details written to out.txt successfully"); Ok(())
Finish ==
    /\ At("finish")
    /\ stdout' = Append(stdout,
           [text |-> "Transaction details written to out.txt successfully", arg |-> <<>>])
    /\ pc' = "exit"
    /\ outcome' = "ok"
    /\ msg' = msg
    /\ UNCHANGED <<local, nodeWallets, rpcLog, file, scanned, run>>

\* The program is executed again against the same node and working directory.
StartRun ==
    /\ outcome # "running"
    /\ run < MaxRuns
    /\ run' = run + 1
    /\ pc' = "connect"
    /\ outcome' = "running"
    /\ msg' = ""
    /\ local' = Locals
    /\ stdout' = <<>>
    /\ scanned' = 0
    /\ UNCHANGED <<nodeWallets, rpcLog, file>>

Main(U) ==
    \/ Connect
    \/ ListWallets
    \/ CreateMinerWallet
    \/ CreateTraderWallet
    \/ MinerClient
    \/ TraderClient
    \/ MiningAddress(U)
    \/ MineMaturity
    \/ GetBalance(U)
    \/ TraderAddress(U)
    \/ Send(U)
    \/ Confirm(U)
    \/ GetBlockCount(U)
    \/ GetTransaction(U)
    \/ GetRawTransaction(U)
    \/ FindChange
    \/ ChangeAddress
    \/ Fee
    \/ CreateFile
    \/ Writeln
    \/ Finish

Next == Main(Wide)

NextTwice == Main(Narrow) \/ StartRun

\* One execution of the program.
Spec == Init /\ [][Next]_vars

\* Up to MaxRuns executions in a row against the same node.
SpecTwice == Init /\ [][NextTwice]_vars

----------------------------------------------------------------------------
(* Vocabulary of the properties *)

Steps ==
    << "connect", "list_wallets", "create_miner", "create_trader", "miner_client",
       "trader_client", "mining_address", "mine_maturity", "get_balance",
       "trader_address", "send", "confirm", "block_count", "get_transaction",
       "get_raw_transaction", "find_change", "change_address", "fee",
       "create_file", "write", "finish", "exit" >>

StepNo(p) == CHOOSE i \in 1..Len(Steps) : Steps[i] = p

Past(p) == StepNo(pc) > StepNo(p)

Halted == outcome # "running"

Failed == outcome \in {"err", "panic"}

\* The steps that come before the report is opened.
BeforeReport == {Steps[i] : i \in 1..StepNo("fee")}

ThisRun == SelectSeq(rpcLog, LAMBDA e : e.run = run)

Issued(name) ==
    \E i \in 1..Len(rpcLog) :
        /\ rpcLog[i].run = run
        /\ rpcLog[i].method = "createwallet"
        /\ rpcLog[i].arg = name

Count(list, name) == Cardinality({i \in 1..Len(list) : list[i] = name})

Outs == local.decoded.v.output

Decodable(j) == FromScript(Outs[j].script_pubkey).ok

PaysRecipient(j) ==
    Decodable(j) /\ FromScript(Outs[j].script_pubkey).addr = local.trader_address.v

\* The outputs at which a left-to-right search for the change must end.
Stops == {j \in 1..Len(Outs) : ~PaysRecipient(j)}

FirstStop == CHOOSE j \in Stops : \A k \in Stops : j <= k

\* The change search has run (to a choice or to a fault).
Searched == Past("find_change") \/ (pc = "find_change" /\ Halted)

AbsSat(n) == IF n < 0 THEN 0 - n ELSE n

----------------------------------------------------------------------------
(* C1 *)

\* C1 as stated: whenever the raw transaction has an output count other than
\* two, the change search fails and no output is ever taken as the change.
C1_FailsUnlessTwoOutputs ==
    (local.decoded.some /\ Len(Outs) # 2)
        => (pc = "find_change" /\ ~local.change_output.some /\ file \in {NoFile, StaleFile})

\* C1 amended: with an output count other than two the change search fails
\* exactly when no output pays an address other than the recipient's (so always
\* for zero outputs) or an undecodable output comes before every such output;
\* otherwise it completes and takes the first output not paying the recipient.
C1_FailsOnlyWithoutCandidate ==
    (local.decoded.some /\ Len(Outs) # 2 /\ Searched)
        => IF Stops = {} \/ ~Decodable(FirstStop)
           THEN pc = "find_change" /\ outcome = "panic" /\ ~local.change_output.some
           ELSE Past("find_change") /\ local.change_output = Some(FirstStop)

C1_Witness ==
    /\ outcome = "ok"
    /\ Len(Outs) = 3
    /\ local.change_output = Some(2)

----------------------------------------------------------------------------
(* C2 *)

\* Every step before the report has succeeded: the requests of this run are the
\* eleven of the workflow (wallet creations aside), all answered, and the
\* change output, its address and the fee have been obtained.
AllPrecedingSucceeded ==
    /\ \A i \in 1..Len(ThisRun) : ThisRun[i].ok
    /\ LET work == SelectSeq(ThisRun, LAMBDA e : e.method # "createwallet")
       IN  [i \in 1..Len(work) |-> work[i].method] =
               << "listwallets", "getnewaddress", "generatetoaddress", "getbalance",
                  "getnewaddress", "sendtoaddress", "generatetoaddress",
                  "getblockcount", "gettransaction", "getrawtransaction" >>
    /\ local.block_hash.some
    /\ local.change_output.some
    /\ local.change_address.some
    /\ local.fee.some

\* C2: the report file changes only in a step taken after every preceding step
\* has succeeded, and as long as the run is at (or has failed at) one of those
\* steps the file is as it was before the run.
C2_ReportOnlyAfterAllSteps ==
    [][ /\ (file' # file) => (pc \in {"create_file", "write"} /\ AllPrecedingSucceeded)
        /\ (pc' \in BeforeReport) => (file' = file /\ file' \in {NoFile, StaleFile})
      ]_vars

C2_Witness ==
    /\ outcome = "panic"
    /\ pc = "fee"
    /\ file = StaleFile

----------------------------------------------------------------------------
(* C3 *)

\* C3: when main returns Ok the report is exactly these ten lines, in order:
\* txid, mining address, input amount, recipient address, sent amount, change
\* address, change amount, fee, block height, block hash.
C3_TenLinesInOrder ==
    outcome = "ok" =>
        /\ file.exists
        /\ Len(file.lines) = 10
        /\ file.lines =
             << local.txid.v,
                AddressDisplay(local.mining_address.v),
                <<"5", "0">>,
                AddressDisplay(local.trader_address.v),
                <<"2", "0">>,
                AddressDisplay(FromScript(Outs[local.change_output.v].script_pubkey).addr),
                F64Display(ToBtc(Outs[local.change_output.v].value)),
                F64Display(ToBtc(AbsSat(local.tx.v.fee.v))),
                Dec(local.block_height.v),
                local.block_hash.v >>

C3_Witness ==
    /\ outcome = "ok"
    /\ file.lines =
         << <<"e", "3">>,
            <<"b", "c", "r", "t", "1", "q", "c">>,
            <<"5", "0">>,
            <<"b", "c", "r", "t", "1", "q", "a">>,
            <<"2", "0">>,
            <<"b", "c", "r", "t", "1", "q", "b">>,
            <<"9", ".", "9", "9", "9", "9", "8", "5", "9">>,
            <<"0", ".", "0", "0", "0", "0", "1", "4", "1">>,
            <<"1", "0", "2">>,
            <<"0", "f">> >>

----------------------------------------------------------------------------
(* C4 *)

\* C4: once written in this run, line 3 is "50" and line 5 is "20", whatever
\* the node answered.
C4_LiteralAmounts ==
    (Past("create_file") /\ file.exists) =>
        /\ Len(file.lines) >= 3 => file.lines[3] = <<"5", "0">>
        /\ Len(file.lines) >= 5 => file.lines[5] = <<"2", "0">>

C4_Witness ==
    /\ outcome = "ok"
    /\ local.miner_balance.v = 0
    /\ Outs[1].value = 150000000
    /\ local.change_output.v = 1
    /\ file.lines[3] = <<"5", "0">>
    /\ file.lines[5] = <<"2", "0">>

----------------------------------------------------------------------------
(* C5 *)

\* An earlier run got past wallet provisioning (it reached its first wallet
\* request).
ProvisionedBefore ==
    \E i \in 1..Len(rpcLog) : rpcLog[i].run < run /\ rpcLog[i].method = "getnewaddress"

\* C5: a create_wallet for "Miner" / "Trader" is issued exactly when the name is
\* missing from the list queried at the start of the run; no wallet ever exists
\* twice; and a run that follows one which completed provisioning issues no
\* create_wallet and finds each wallet exactly once.
C5_IdempotentProvisioning ==
    /\ \A name \in {"Miner", "Trader"} :
          /\ Issued(name) => ~Contains(local.wallets, name)
          /\ (Past(IF name = "Miner" THEN "create_miner" ELSE "create_trader")
                /\ ~Contains(local.wallets, name)) => Issued(name)
          /\ Count(nodeWallets, name) <= 1
    /\ ProvisionedBefore =>
          \A name \in {"Miner", "Trader"} :
              ~Issued(name) /\ Count(nodeWallets, name) = 1

C5_Witness ==
    /\ run = 2
    /\ pc = "miner_client"
    /\ ProvisionedBefore
    /\ \E i, j \in 1..Len(rpcLog) :
          /\ rpcLog[i].run = 1 /\ rpcLog[i].method = "createwallet" /\ rpcLog[i].ok
          /\ rpcLog[j].run = 1 /\ rpcLog[j].method = "createwallet" /\ rpcLog[j].ok
          /\ i # j

----------------------------------------------------------------------------
(* C6 *)

\* Which request an entry of the log is.
Request(e) ==
    <<e.to, e.method, IF e.method = "generatetoaddress" THEN e.arg ELSE 0>>

\* Only the last request of a run can have failed, a failed request has ended
\* the run with an error, and no request was made twice.
FailureIsLast ==
    LET log  == ThisRun
        reqs == [i \in 1..Len(log) |->
                    <<Request(log[i]),
                      IF log[i].method = "createwallet" THEN log[i].arg ELSE "">>]
    IN  /\ \A i \in 1..Len(log) :
              ~log[i].ok => (i = Len(log) /\ outcome = "err" /\ msg = "rpc")
        /\ Cardinality({reqs[i] : i \in 1..Len(log)}) = Len(log)

\* C6: the first failure ends the run: every step starts from a run that has
\* not failed (so nothing follows a failure, neither a request nor a later
\* step), and no request is repeated.
C6_FirstFailureEndsRun ==
    [][outcome = "running" /\ FailureIsLast' /\ (Failed' => pc' = pc)]_vars

C6_Witness ==
    /\ outcome = "err"
    /\ pc = "send"
    /\ Len(rpcLog) = 6
    /\ ~rpcLog[6].ok
    /\ rpcLog[6].method = "sendtoaddress"

----------------------------------------------------------------------------
(* C7 *)

\* C7 as stated: a run ends in a panic only for a script decode failure or an
\* absent change output; anything else, a wallet transaction without a fee
\* included, ends in an error value.
C7_OnlyDecodeAndChangePanic ==
    /\ outcome = "panic" =>
          /\ pc \in {"find_change", "change_address"}
          /\ msg \in { "Failed to convert script to address",
                       "Failed to convert change script to address",
                       "Change output not found" }
    /\ (Failed /\ pc = "fee") => outcome = "err"

\* C7 amended: a run ends in a panic exactly for a script decode failure, an
\* absent change output, a wallet transaction without a fee, or an empty list
\* of block hashes from the confirming mining request; every other failure
\* (client construction, a failed request, file i/o) ends in an error value.
C7_PanicsAndErrors ==
    Failed =>
        CASE pc = "find_change" ->
                /\ outcome = "panic"
                /\ msg = IF Stops = {} THEN "Change output not found"
                         ELSE "Failed to convert script to address"
          [] pc = "fee" ->
                /\ outcome = "panic"
                /\ ~local.tx.v.fee.some
          [] pc = "confirm" ->
                IF rpcLog[Len(rpcLog)].ok
                THEN outcome = "panic" /\ msg = "index out of bounds: the len is 0 but the index is 0"
                ELSE outcome = "err" /\ msg = "rpc"
          [] pc \in {"connect", "miner_client", "trader_client"} ->
                outcome = "err" /\ msg = "client"
          [] pc \in {"create_file", "write"} ->
                outcome = "err" /\ msg = "io"
          [] OTHER ->
                outcome = "err" /\ msg = "rpc" /\ ~rpcLog[Len(rpcLog)].ok

C7_Witness ==
    /\ outcome = "panic"
    /\ pc = "fee"
    /\ local.change_address.some

----------------------------------------------------------------------------
(* C8 *)

\* C8: in a successful run line 8 is the wallet-reported fee without its sign,
\* and so never starts with a minus.
C8_FeeAbsolute ==
    outcome = "ok" =>
        /\ file.lines[8] = F64Display(ToBtc(AbsSat(local.tx.v.fee.v)))
        /\ file.lines[8][1] # "-"

C8_Witness ==
    /\ outcome = "ok"
    /\ local.tx.v.fee.v < 0
    /\ file.lines[8] = <<"0", ".", "0", "0", "0", "0", "1", "4", "1">>

----------------------------------------------------------------------------
(* C9 *)

\* Exactly two decodable outputs, one to the recipient and one elsewhere.
PaymentAndChange ==
    /\ local.decoded.some
    /\ Len(Outs) = 2
    /\ Decodable(1) /\ Decodable(2)
    /\ PaysRecipient(1) # PaysRecipient(2)

\* C9: with one payment and one change output, in either order, lines 6 and 7
\* are the address and the value of the output that does not pay the recipient.
C9_ChangeFromOtherOutput ==
    (PaymentAndChange /\ outcome = "ok") =>
        LET j == IF PaysRecipient(1) THEN 2 ELSE 1
        IN  /\ file.lines[6] = AddressDisplay(FromScript(Outs[j].script_pubkey).addr)
            /\ file.lines[7] = F64Display(ToBtc(Outs[j].value))

C9_Witness ==
    /\ PaymentAndChange
    /\ outcome = "ok"
    /\ PaysRecipient(1)
    /\ file.lines[6] = <<"b", "c", "r", "t", "1", "q", "c">>
    /\ file.lines[7] = <<"1", ".", "5">>

----------------------------------------------------------------------------
(* C10 *)

\* C10: the search applies the closure to the outputs in order and ends at the
\* first that is undecodable or pays another address than the recipient's: an
\* undecodable one is a fault, otherwise it is the change output; nothing after
\* it is decoded; with no such output the fault is "Change output not found".
C10_SearchStopsAtFirst ==
    (local.decoded.some /\ Searched) =>
        IF Stops = {}
        THEN /\ pc = "find_change" /\ outcome = "panic"
             /\ msg = "Change output not found"
             /\ scanned = Len(Outs)
        ELSE /\ scanned = FirstStop
             /\ IF Decodable(FirstStop)
                THEN local.change_output = Some(FirstStop) /\ Past("find_change")
                ELSE /\ pc = "find_change" /\ outcome = "panic"
                     /\ msg = "Failed to convert script to address"

C10_Witness ==
    /\ outcome = "ok"
    /\ local.change_output.some
    /\ \E j \in 1..Len(Outs) : j > local.change_output.v /\ ~Decodable(j)

====
